---------------------------- MODULE Spec2Model ----------------------------
(***************************************************************************)
(* Model of the transistor LUT resizing core (src/OPS/DF_OPS.py):          *)
(*   parse_condition, parse_from_number, DF_OPS.__init__,                  *)
(*   DF_OPS.add_specs_df and DF_OPS.compute_conditional_df.                *)
(*                                                                         *)
(* Text is a sequence of one-character strings.  A number is a record      *)
(* [n, d, e] standing for (n/d) * 10^e: an exact decimal-exponent rational *)
(* in place of the IEEE double of the code.  d = 0 encodes the non-finite  *)
(* doubles: n = 1 is +inf, n = -1 is -inf, n = 0 is NaN.  Multiplication,  *)
(* division and comparison follow IEEE on the non-finite values; rounding  *)
(* of finite results is not modelled (arithmetic is exact).                *)
(***************************************************************************)
EXTENDS Integers, Sequences, FiniteSets, TLC

VARIABLES
    df,              \* DF_OPS.df: the base table, W decoded
    mod_df,          \* DF_OPS.mod_df: base table plus derived columns
    conditional_df,  \* DF_OPS.conditional_df: rows of the result table
    outcome,         \* how the last compute_conditional_df call ended
    request,         \* arguments of the last compute_conditional_df call
    prior,           \* how the call before the last one ended
    text,            \* input of the pure text functions
    result           \* output of the pure text functions

vars == <<df, mod_df, conditional_df, outcome, request, prior, text, result>>

-----------------------------------------------------------------------------
(* Exact arithmetic standing for Python/numpy float arithmetic.            *)

Abs(x) == IF x < 0 THEN -x ELSE x

Sgn(x) == IF x < 0 THEN -1 ELSE 1

RECURSIVE Gcd(_, _)
Gcd(a, b) == IF b = 0 THEN a ELSE Gcd(b, a % b)

RECURSIVE Pow10(_)
Pow10(k) == IF k <= 0 THEN 1 ELSE 10 * Pow10(k - 1)

NaN == [n |-> 0, d |-> 0, e |-> 0]

PosInf == [n |-> 1, d |-> 0, e |-> 0]

NegInf == [n |-> -1, d |-> 0, e |-> 0]

Zero == [n |-> 0, d |-> 1, e |-> 0]

\* Mantissa n/d (d > 0, n # 0) brought into 1 <= |n/d| < 10, lowest terms.
RECURSIVE Scale(_, _, _)
Scale(n, d, e) ==
    LET g == Gcd(Abs(n), d)
        n1 == n \div g
        d1 == d \div g
    IN  IF Abs(n1) >= 10 * d1 THEN Scale(n1, d1 * 10, e + 1)
        ELSE IF Abs(n1) < d1 THEN Scale(n1 * 10, d1, e - 1)
        ELSE [n |-> n1, d |-> d1, e |-> e]

\* The normal form of (n/d) * 10^e, d >= 0.
Norm(n, d, e) ==
    IF d = 0 THEN [n |-> IF n > 0 THEN 1 ELSE IF n < 0 THEN -1 ELSE 0, d |-> 0, e |-> 0]
    ELSE IF n = 0 THEN Zero
    ELSE Scale(n, d, e)

Num(n, d, e) == Norm(n, d, e)

IsNaN(a) == a.d = 0 /\ a.n = 0

IsFinite(a) == a.d # 0

Neg(a) == [a EXCEPT !.n = -a.n]

\* Product; finite factors are cross-reduced first to keep the integers small.
Mul(a, b) ==
    IF a.d = 0 \/ b.d = 0 \/ a.n = 0 \/ b.n = 0
    THEN Norm(a.n * b.n, a.d * b.d, a.e + b.e)
    ELSE LET g1 == Gcd(Abs(a.n), b.d)
             g2 == Gcd(Abs(b.n), a.d)
         IN  Norm((a.n \div g1) * (b.n \div g2), (a.d \div g2) * (b.d \div g1),
                  a.e + b.e)

\* 1/a: 1/0 = +inf, 1/inf = 0, 1/NaN = NaN.
Recip(a) == Norm(a.d * Sgn(a.n), Abs(a.n), -a.e)

Div(a, b) == Mul(a, Recip(b))

\* Sum of two finite numbers.
Add(a, b) ==
    IF a.n = 0 THEN b
    ELSE IF b.n = 0 THEN a
    ELSE LET e == IF a.e < b.e THEN a.e ELSE b.e
         IN  Norm(a.n * b.d * Pow10(a.e - e) + b.n * a.d * Pow10(b.e - e),
                  a.d * b.d, e)

Sub(a, b) == Add(a, Neg(b))

\* a < b on finite numbers in normal form.
LtFin(a, b) ==
    LET sa == IF a.n = 0 THEN 0 ELSE Sgn(a.n)
        sb == IF b.n = 0 THEN 0 ELSE Sgn(b.n)
    IN  IF sa # sb THEN sa < sb
        ELSE IF sa = 0 THEN FALSE
        ELSE IF a.e # b.e THEN (IF sa > 0 THEN a.e < b.e ELSE a.e > b.e)
        ELSE a.n * b.d < b.n * a.d

\* a < b on the extended reals (neither is NaN).
LtOrd(a, b) ==
    IF a.d = 0 \/ b.d = 0
    THEN \/ a = NegInf /\ b # NegInf
         \/ b = PosInf /\ a # PosInf
    ELSE LtFin(a, b)

\* IEEE comparisons: every comparison with NaN is false.
Lt(a, b) == ~IsNaN(a) /\ ~IsNaN(b) /\ LtOrd(a, b)

Le(a, b) == ~IsNaN(a) /\ ~IsNaN(b) /\ ~LtOrd(b, a)

Gt(a, b) == Lt(b, a)

Ge(a, b) == Le(b, a)

-----------------------------------------------------------------------------
(* Text helpers.                                                           *)

Digits == {"0", "1", "2", "3", "4", "5", "6", "7", "8", "9"}

DigitVal(c) ==
    CASE c = "0" -> 0 [] c = "1" -> 1 [] c = "2" -> 2 [] c = "3" -> 3
      [] c = "4" -> 4 [] c = "5" -> 5 [] c = "6" -> 6 [] c = "7" -> 7
      [] c = "8" -> 8 [] c = "9" -> 9

RECURSIVE IntOf(_)
IntOf(s) == IF s = <<>> THEN 0
            ELSE 10 * IntOf(SubSeq(s, 1, Len(s) - 1)) + DigitVal(s[Len(s)])

\* Length of the longest run of characters of S in s starting at index i.
RECURSIVE Run(_, _, _)
Run(s, i, S) == IF i <= Len(s) /\ s[i] \in S THEN 1 + Run(s, i + 1, S) ELSE 0

\* Length of the longest run of characters not in S in s starting at i.
RECURSIVE RunNot(_, _, _)
RunNot(s, i, S) == IF i <= Len(s) /\ s[i] \notin S THEN 1 + RunNot(s, i + 1, S) ELSE 0

RECURSIVE Str(_)
Str(s) == IF s = <<>> THEN "" ELSE s[1] \o Str(Tail(s))

-----------------------------------------------------------------------------
(* parse_condition: re.match(r'(\S+)\s*(=|<|>)\s*(\S+)', condition).       *)
(* The match is anchored at the start only.  The first group is greedy     *)
(* and backtracks from the whole leading run of non-blank characters: it   *)
(* takes the longest prefix after which blanks, one operator character,    *)
(* blanks and at least one non-blank character follow.  The third group    *)
(* is the longest run of non-blank characters found there.                 *)

WS == {" ", "\t"}

Ops == {"=", "<", ">"}

ValueError == [ok |-> FALSE, error |-> "ValueError"]

SetMax(S) == CHOOSE x \in S : \A y \in S : y <= x

\* Index of the operator character when the first group is condition[1..k].
OpIndex(condition, k) == k + Run(condition, k + 1, WS) + 1

\* Index where the third group starts when the operator is at index o.
RhsIndex(condition, o) == o + Run(condition, o + 1, WS) + 1

MatchAt(condition, k) ==
    LET o == OpIndex(condition, k)
    IN  /\ o <= Len(condition)
        /\ condition[o] \in Ops
        /\ RunNot(condition, RhsIndex(condition, o), WS) >= 1

parse_condition(condition) ==
    LET r1 == RunNot(condition, 1, WS)
        K  == {k \in 1..r1 : MatchAt(condition, k)}
    IN  IF K = {} THEN ValueError
        ELSE LET k == SetMax(K)
                 o == OpIndex(condition, k)
                 r == RhsIndex(condition, o)
             IN  [ok |-> TRUE,
                  groups |-> <<SubSeq(condition, 1, k), condition[o],
                               SubSeq(condition, r, r + RunNot(condition, r, WS) - 1)>>]

-----------------------------------------------------------------------------
(* parse_from_number:                                                      *)
(*   re.match(r"([-+]?\d*\.?\d+)([TGMkmunpf]?)", formatted_value).         *)
(* The match is anchored at the start only, so whatever follows the        *)
(* mantissa and the optional suffix character is ignored.                  *)

Suffixes == {"T", "G", "M", "k", "m", "u", "n", "p", "f"}

\* units[unit] as a power of ten; "" is the empty second group.
UnitExp(unit) ==
    CASE unit = "T" -> 12 [] unit = "G" -> 9 [] unit = "M" -> 6 [] unit = "k" -> 3
      [] unit = "" -> 0 [] unit = "m" -> -3 [] unit = "u" -> -6
      [] unit = "n" -> -9 [] unit = "p" -> -12 [] unit = "f" -> -15

SignLen(s) == IF Len(s) >= 1 /\ s[1] \in {"-", "+"} THEN 1 ELSE 0

SignOf(s) == IF Len(s) >= 1 /\ s[1] = "-" THEN -1 ELSE 1

\* The decimal sign int.frac as a number.
Decimal(sign, int, frac) ==
    Num(sign * (IntOf(int) * Pow10(Len(frac)) + IntOf(frac)), Pow10(Len(frac)), 0)

parse_from_number(formatted_value) ==
    LET v   == formatted_value
        s0  == SignLen(v)
        d1  == Run(v, s0 + 1, Digits)
        dot == s0 + d1 + 1 <= Len(v) /\ v[s0 + d1 + 1] = "."
        d2  == IF dot THEN Run(v, s0 + d1 + 2, Digits) ELSE 0
        \* end of group 1: \d*\.?\d+ takes int "." frac when a digit follows
        \* the point, and otherwise backtracks to the integer digits alone
        m   == IF d2 >= 1 THEN s0 + d1 + 1 + d2 ELSE s0 + d1
        number == IF d2 >= 1
                  THEN Decimal(SignOf(v), SubSeq(v, s0 + 1, s0 + d1),
                               SubSeq(v, s0 + d1 + 2, m))
                  ELSE Decimal(SignOf(v), SubSeq(v, s0 + 1, s0 + d1), <<>>)
        unit == IF m + 1 <= Len(v) /\ v[m + 1] \in Suffixes THEN v[m + 1] ELSE ""
    IN  IF d2 = 0 /\ d1 = 0 THEN ValueError
        ELSE [ok |-> TRUE, value |-> Mul(number, Num(1, 1, UnitExp(unit)))]

-----------------------------------------------------------------------------
(* float(text) of Python on the decimal literals                           *)
(*   [sign] (digits ["." [digits]] | "." digits) [("e"|"E") [sign] digits] *)
(* and ValueError on any other text over the characters the model draws    *)
(* (no blanks, no underscore, none of inf/nan).                            *)

FirstE(s) == LET I == {i \in 1..Len(s) : s[i] \in {"e", "E"}}
             IN  IF I = {} THEN 0 ELSE CHOOSE i \in I : \A j \in I : i <= j

FloatOf(s) ==
    LET s0   == SignLen(s)
        body == SubSeq(s, s0 + 1, Len(s))
        ep   == FirstE(body)
        mant == IF ep = 0 THEN body ELSE SubSeq(body, 1, ep - 1)
        ex   == IF ep = 0 THEN <<>> ELSE SubSeq(body, ep + 1, Len(body))
        i    == Run(mant, 1, Digits)
        dot  == i + 1 <= Len(mant) /\ mant[i + 1] = "."
        f    == IF dot THEN Run(mant, i + 2, Digits) ELSE 0
        mantOk == /\ i + f >= 1
                  /\ Len(mant) = i + f + (IF dot THEN 1 ELSE 0)
        xs   == SignLen(ex)
        xd   == Run(ex, xs + 1, Digits)
        exOk == ep = 0 \/ (xd >= 1 /\ Len(ex) = xs + xd)
        m    == Decimal(SignOf(s), SubSeq(mant, 1, i), SubSeq(mant, i + 2, i + 1 + f))
    IN  IF mantOk /\ exOk
        THEN [ok |-> TRUE,
              value |-> Mul(m, Num(1, 1, SignOf(ex) * IntOf(SubSeq(ex, xs + 1, Len(ex)))))]
        ELSE ValueError

-----------------------------------------------------------------------------
(* DF_OPS.__init__ and DF_OPS.add_specs_df.                                *)
(* A table is a sequence of rows; a row's position is its index label.     *)

proportional == {"cgg", "gm", "gmb", "id"}

\* Mutant: rout left out of the scaling sets.
inversly_none == {}

inversly == {"rout"}

\* 2 * math.pi, as the rational 2 * 355/113.
TwoPi == Num(710, 113, 0)

\* self.df['W'] = self.df['W'].apply(parse_from_number)
DecodeW(raw) == [i \in 1..Len(raw) |-> [raw[i] EXCEPT !.W = parse_from_number(@).value]]

\* mod_df = self.df.copy() plus intrinsic_gain, ft and gmoverid; the spec
\* name 'area' has no branch and adds no column.
add_specs_df(base) ==
    [i \in 1..Len(base) |->
        [W |-> base[i].W, L |-> base[i].L, gm |-> base[i].gm, gmb |-> base[i].gmb,
         rout |-> base[i].rout, cgg |-> base[i].cgg, id |-> base[i].id,
         region |-> base[i].region,
         intrinsic_gain |-> Mul(base[i].gm, base[i].rout),
         ft |-> Div(base[i].gm, Mul(TwoPi, base[i].cgg)),
         gmoverid |-> Div(base[i].gm, base[i].id)]]

ModColumns == {"W", "L", "gm", "gmb", "rout", "cgg", "id", "region",
               "intrinsic_gain", "ft", "gmoverid"}

-----------------------------------------------------------------------------
(* DF_OPS.compute_conditional_df.                                          *)

\* The resized width of one row for the parsed condition (var, op, target):
\* W * (target / row[var]) or W * (row[var] / target).
ResizedW(r, var, target) ==
    IF var \in proportional THEN Mul(r.W, Div(target, r[var]))
    ELSE Mul(r.W, Div(r[var], target))

\* Mutant: temp_copy = self.mod_df, the same object and no copy.
copy_alias(mod) == [object |-> "mod_df", rows |-> mod]

\* Line 66: self.mod_df.copy() is a new frame object holding the same rows.
copy(mod) == [object |-> "temp_copy", rows |-> mod]

\* temp_copy after the W assignment and the condition tag of lines 69-75,
\* with index labels.  The right sides read self.mod_df.
TempCopy(mod, var, target) ==
    [i \in 1..Len(mod) |->
        [index |-> i,
         row |-> [copy(mod).rows[i] EXCEPT !.W = ResizedW(mod[i], var, target)]
                 @@ [condition |-> var]]]

\* self.mod_df after lines 69-75: the frame temp_copy names was written; it
\* is self.mod_df only if temp_copy is that object and not a copy.
ModAfterWrites(mod, var, target) ==
    IF copy(mod).object = "mod_df"
    THEN LET t == TempCopy(mod, var, target) IN [i \in 1..Len(t) |-> t[i].row]
    ELSE mod

\* Mutant: W <= Wmax keeps a row of exactly the maximum width.
KeepWidthInclusive(x, Wmax) == Le(x.row.W, Wmax)

KeepWidth(x, Wmax) == Lt(x.row.W, Wmax)

KeepAspect(x, WoverL_min) == Gt(Div(x.row.W, x.row.L), WoverL_min)

\* temp_copy[temp_copy['W'] < Wmax], then [temp_copy['W']/temp_copy['L'] > WoverL_min]
GeometryFilter(temp, WoverL_min, Wmax) ==
    SelectSeq(SelectSeq(temp, LAMBDA x : KeepWidth(x, Wmax)),
              LAMBDA x : KeepAspect(x, WoverL_min))

\* Mutant: the ratio taken against the first row's width (positional, not
\* index-aligned, once the filter has dropped rows).
BaselineWFirst(base, x) == base[1].W

\* The width the ratio of a kept row is taken against: self.df['W'] at the
\* row's index label.
BaselineW(base, x) == base[x.index].W

\* Lines 80-81 on one kept row: proportional columns times W/df.W, inverse
\* columns divided by it.
Rescale(base, x) ==
    LET ratio == Div(x.row.W, BaselineW(base, x))
    IN  [x.row EXCEPT !.cgg = Mul(@, ratio), !.gm = Mul(@, ratio),
                      !.gmb = Mul(@, ratio), !.id = Mul(@, ratio),
                      !.rout = Div(@, ratio)]

\* One condition's batch: the rows pd.concat appends (index labels dropped).
Batch(base, mod, var, target, WoverL_min, Wmax) ==
    LET kept == GeometryFilter(TempCopy(mod, var, target), WoverL_min, Wmax)
    IN  [j \in 1..Len(kept) |-> Rescale(base, kept[j])]

\* The loop of lines 65-85 from condition k on: acc is self.conditional_df
\* so far.  float(row[2]) raises ValueError on a driving condition whose
\* value is no float literal; the rows accumulated so far stay.
RECURSIVE ResizeLoop(_, _, _, _, _, _, _, _)
ResizeLoop(base, mod, parsed, k, acc, flag, WoverL_min, Wmax) ==
    IF k > Len(parsed)
    THEN [rows |-> acc, flag |-> flag, error |-> "none", mod_df |-> mod]
    ELSE LET var == Str(parsed[k][1])
             f   == FloatOf(parsed[k][3])
         IN  IF var \notin proportional \cup inversly
             THEN ResizeLoop(base, mod, parsed, k + 1, acc, flag, WoverL_min, Wmax)
             ELSE IF ~f.ok
             THEN [rows |-> acc, flag |-> flag, error |-> "ValueError", mod_df |-> mod]
             ELSE ResizeLoop(base, ModAfterWrites(mod, var, f.value), parsed, k + 1,
                             acc \o Batch(base, mod, var, f.value, WoverL_min, Wmax),
                             TRUE, WoverL_min, Wmax)

\* Mutant: the accumulator is not reset and keeps the rows of the last call.
LeftoverFrame(before) == before

\* Line 63: self.conditional_df starts each call as an empty frame, whatever
\* it held before.
FreshFrame(before) == <<>>

\* Mutant: the call is rejected when the loop produced no row.
InsufficientIfEmpty(flag, rows) == rows = <<>>

\* Line 87: the check made of the flag after the loop.
Insufficient(flag, rows) == ~flag

\* Line 86: conditional_df['area'] = W * L.
AreaOf(r) == Mul(r.W, r.L)

WithArea(rows) == [j \in 1..Len(rows) |-> rows[j] @@ [area |-> AreaOf(rows[j])]]

\* Whether the two eval strings of one condition can be evaluated on a table
\* with these columns: the left side names a column and the right side is a
\* float literal (for '=', float(condition[2]) is taken first).
CanEval(cond, columns) == Str(cond[1]) \in columns /\ FloatOf(cond[3]).ok

\* How the matcher's step for a condition that cannot be evaluated ends:
\* float(condition[2]) of an '=' condition raises ValueError before any eval.
EvalFailure(cond) ==
    IF cond[2] = "=" /\ ~FloatOf(cond[3]).ok THEN "ValueError" ELSE "EvalError"

\* Mutant: strict comparisons in the three eval strings.
EvalConditionStrict(r, cond, tolerance_percent) ==
    LET value  == r[Str(cond[1])]
        target == FloatOf(cond[3]).value
        tolerance == Mul(Div(tolerance_percent, Num(100, 1, 0)), target)
    IN  CASE cond[2] = "=" -> /\ Lt(value, Add(target, tolerance))
                             /\ Gt(value, Sub(target, tolerance))
          [] cond[2] = ">" -> Gt(value, target)
          [] cond[2] = "<" -> Lt(value, target)

\* The value of the eval strings of one condition on one row.
EvalCondition(r, cond, tolerance_percent) ==
    LET value  == r[Str(cond[1])]
        target == FloatOf(cond[3]).value
        tolerance == Mul(Div(tolerance_percent, Num(100, 1, 0)), target)
    IN  CASE cond[2] = "=" -> /\ Le(value, Add(target, tolerance))
                             /\ Ge(value, Sub(target, tolerance))
          [] cond[2] = ">" -> Ge(value, target)
          [] cond[2] = "<" -> Le(value, target)

\* met_specs after the first k conditions of the loop of lines 92-102.
MetSpecs(r, parsed, k, tolerance_percent) ==
    \A i \in 1..k : EvalCondition(r, parsed[i], tolerance_percent)

MetSpecsUpTo(rows, parsed, k, tolerance_percent) ==
    [j \in 1..Len(rows) |->
        rows[j] @@ [met_specs |-> MetSpecs(rows[j], parsed, k, tolerance_percent)]]

\* Line 61: [parse_condition(cond) for cond in conditions].
RECURSIVE ParseAll(_)
ParseAll(conditions) ==
    IF conditions = <<>> THEN <<>>
    ELSE <<parse_condition(Head(conditions))>> \o ParseAll(Tail(conditions))

RECURSIVE GroupsOf(_)
GroupsOf(p) == IF p = <<>> THEN <<>> ELSE <<Head(p).groups>> \o GroupsOf(Tail(p))

\* The whole call from the state `before` of self.conditional_df: the new
\* self.conditional_df and how the call ended.
compute_conditional_df(base, mod, before, conditions, tolerance_percent, WoverL_min, Wmax) ==
    LET p == ParseAll(conditions)
    IN  IF \E i \in 1..Len(p) : ~p[i].ok
        THEN [conditional_df |-> before, outcome |-> "ValueError", mod_df |-> mod]
        ELSE
        LET parsed  == GroupsOf(p)
            resized == ResizeLoop(base, mod, parsed, 1, FreshFrame(before), FALSE,
                                  WoverL_min, Wmax)
            rows    == WithArea(resized.rows)
            columns == ModColumns \cup {"condition", "area", "met_specs"}
            bad     == {i \in 1..Len(parsed) : ~CanEval(parsed[i], columns)}
            stop    == IF bad = {} THEN Len(parsed)
                       ELSE (CHOOSE i \in bad : \A j \in bad : i <= j) - 1
        IN  IF resized.error # "none"
            THEN [conditional_df |-> resized.rows, outcome |-> resized.error,
                  mod_df |-> resized.mod_df]
            ELSE IF Insufficient(resized.flag, resized.rows)
            THEN [conditional_df |-> rows, outcome |-> "Exception",
                  mod_df |-> resized.mod_df]
            ELSE [conditional_df |-> MetSpecsUpTo(rows, parsed, stop, tolerance_percent),
                  outcome |-> IF bad = {} THEN "ok"
                              ELSE EvalFailure(parsed[stop + 1]),
                  mod_df |-> resized.mod_df]

-----------------------------------------------------------------------------
(* The tables, condition strings and options the model draws from.         *)

StringsOver(A, n) == UNION {[1..k -> A] : k \in 0..n}

NoTable == <<>>

NoRequest == [conditions |-> <<>>, tolerance_percent |-> Zero,
              WoverL_min |-> Zero, Wmax |-> Zero]

RawRow(W, L, gm, gmb, rout, cgg, id, region) ==
    [W |-> W, L |-> L, gm |-> gm, gmb |-> gmb, rout |-> rout, cgg |-> cgg,
     id |-> id, region |-> region]

\* The two rows of the end-to-end example (W as SI text, gmb added).
RowA == RawRow(<<"1", "u">>, Num(1, 1, -7), Num(1, 1, -3), Num(2, 1, -4),
               Num(5, 1, 4), Num(1, 1, -12), Num(2, 1, -4), Num(2, 1, 0))

RowB == RawRow(<<"2", "u">>, Num(1, 1, -7), Num(2, 1, -3), Num(4, 1, -4),
               Num(3, 1, 4), Num(2, 1, -12), Num(4, 1, -4), Num(2, 1, 0))

\* id = 0 and cgg = 0: gmoverid = +inf and ft = +inf.
RowZeroId == RawRow(<<"1", "u">>, Num(1, 1, -7), Num(15, 1, -4), Num(3, 1, -4),
                    Num(4, 1, 4), Zero, Zero, Num(2, 1, 0))

\* gm = 0 and id = 0: gmoverid = NaN, and a gm target resizes W to +inf.
RowZeroGm == RawRow(<<"1", "u">>, Num(1, 1, -7), Zero, Zero,
                    Num(35, 1, 3), Num(1, 1, -12), Zero, Num(2, 1, 0))

\* gm = 1.5e-3 resizes W to exactly 100e-6.
RowWide == RawRow(<<"1", "0", "u">>, Num(1, 1, -6), Num(15, 1, -5), Num(3, 1, -5),
                  Num(4, 1, 5), Num(1, 1, -12), Num(3, 1, -5), Num(1, 1, 0))

\* gm = 1.5e-3 keeps W = 1e-6, exactly 0.5 * L.
RowLong == RawRow(<<"1", "u">>, Num(2, 1, -6), Num(15, 1, -4), Num(3, 1, -4),
                  Num(4, 1, 4), Num(1, 1, -12), Num(3, 1, -4), Num(2, 1, 0))

\* gm = 1.5e-3 keeps the row as it is; rout on and around the 1% band of 40e3.
RowBand(rout) == RawRow(<<"5", "0", "0", "n">>, Num(1, 1, -7), Num(15, 1, -4),
                        Num(3, 1, -4), rout, Num(1, 1, -12), Num(3, 1, -4),
                        Num(2, 1, 0))

\* A p-channel row: id is negative.
RowPmos == RawRow(<<"1", "u">>, Num(1, 1, -7), Num(15, 1, -4), Num(3, 1, -4),
                  Num(4, 1, 4), Num(1, 1, -12), Num(-3, 1, -4), Num(2, 1, 0))

Tables ==
    { <<RowA, RowB>>,
      <<RowPmos, RowA>>,
      <<RowZeroId, RowZeroGm, RowA>>,
      <<RowWide, RowLong, RowB>>,
      <<RowBand(Num(39600, 1, 0)), RowBand(Num(40400, 1, 0)),
        RowBand(Num(39500, 1, 0)), RowBand(Num(40500, 1, 0))>>,
      <<>> }

MaxConds == 2

CondGm == <<"g", "m", "=", "1", ".", "5", "e", "-", "3">>

CondRout == <<"r", "o", "u", "t", " ", ">", " ", "3", ".", "5", "e", "4">>

CondRoutEq == <<"r", "o", "u", "t", "=", "4", "0", "e", "3">>

CondId == <<"i", "d", "<", "3", "e", "-", "4">>

\* a negative target
CondIdNeg == <<"i", "d", "=", "-", "3", "e", "-", "4">>

CondRegion == <<"r", "e", "g", "i", "o", "n", " ", "=", " ", "2">>

CondGmOverId == <<"g", "m", "o", "v", "e", "r", "i", "d", ">", "4">>

CondFt == <<"f", "t", "<", "1", "e", "9">>

\* parsed as ("gm>", "=", "1"): no column of that name
CondGe == <<"g", "m", ">", "=", "1">>

\* no operator: parse_condition raises
CondNoOp == <<"g", "m">>

\* a driving condition whose value float() rejects
CondSuffix == <<"g", "m", "=", "2", "m">>

CondPool == {CondGm, CondRout, CondRoutEq, CondId, CondIdNeg, CondRegion, CondGmOverId,
             CondFt, CondGe, CondNoOp, CondSuffix}

\* (tolerance_percent, WoverL_min, Wmax); the first is the defaults.
Options ==
    { <<Num(1, 1, 0), Num(5, 1, -1), Num(100, 1, -6)>>,
      <<Zero, Num(5, 1, -1), Num(100, 1, -6)>>,
      <<Num(10, 1, 0), Num(15, 1, 0), Num(15, 1, -7)>> }

Requests ==
    {[conditions |-> c, tolerance_percent |-> o[1], WoverL_min |-> o[2], Wmax |-> o[3]] :
        c \in StringsOver(CondPool, MaxConds), o \in Options}

\* The requests a second or later call on one instance draws from; such a
\* call is taken after calls with at most one condition.
RepeatRequests ==
    {[conditions |-> c, tolerance_percent |-> Num(1, 1, 0),
      WoverL_min |-> Num(5, 1, -1), Wmax |-> Num(100, 1, -6)] :
        c \in {<<>>, <<CondGm>>, <<CondRout>>, <<CondRegion>>, <<CondNoOp>>,
               <<CondSuffix>>, <<CondGe>>, <<CondRout, CondGm>>}}

-----------------------------------------------------------------------------
(* The state machine of one DF_OPS instance.                               *)

\* After DF_OPS(df): W decoded, mod_df built, conditional_df = 0 (here the
\* table with no rows, and outcome "none").
Init ==
    /\ \E raw \in Tables :
          /\ df = DecodeW(raw)
          /\ mod_df = add_specs_df(DecodeW(raw))
    /\ conditional_df = <<>>
    /\ outcome = "none"
    /\ request = NoRequest
    /\ prior = "none"
    /\ text = <<>>
    /\ result = [fn |-> "none"]

CallRequests ==
    IF outcome = "none" THEN Requests
    ELSE IF Len(request.conditions) <= 1 THEN RepeatRequests
    ELSE {}

Invoke ==
    \E r \in CallRequests :
        /\ \E after \in {compute_conditional_df(df, mod_df, conditional_df, r.conditions,
                                r.tolerance_percent, r.WoverL_min, r.Wmax)} :
               /\ conditional_df' = after.conditional_df
               /\ outcome' = after.outcome
               /\ mod_df' = after.mod_df
        /\ request' = r
        /\ prior' = outcome
        /\ UNCHANGED <<df, text, result>>

Next == Invoke

Spec == Init /\ [][Next]_vars

-----------------------------------------------------------------------------
(* Reading of a finished call, used to state the properties below.         *)

One == Num(1, 1, 0)

Hundred == Num(100, 1, 0)

Drivers == proportional \cup inversly

\* All condition strings of the last request parse.
RequestParses == \A i \in 1..Len(request.conditions) : parse_condition(request.conditions[i]).ok

\* The k-th condition of the last request as (variable, operator, target).
CondVar(k) == Str(parse_condition(request.conditions[k]).groups[1])

CondOp(k) == parse_condition(request.conditions[k]).groups[2]

CondTarget(k) == FloatOf(parse_condition(request.conditions[k]).groups[3]).value

\* The positions of the driving conditions of the last request.
DrivingConds == {k \in 1..Len(request.conditions) : CondVar(k) \in Drivers}

\* The width source row i is resized to by the k-th condition:
\* W * t / v for a proportional v, W * rout / t for rout.
TargetW(i, k) ==
    IF CondVar(k) \in proportional
    THEN Div(Mul(mod_df[i].W, CondTarget(k)), mod_df[i][CondVar(k)])
    ELSE Div(Mul(mod_df[i].W, mod_df[i][CondVar(k)]), CondTarget(k))

\* Source row i passes the geometry filter of the k-th condition.
Survives(i, k) ==
    /\ Lt(TargetW(i, k), request.Wmax)
    /\ Gt(Div(TargetW(i, k), mod_df[i].L), request.WoverL_min)

-----------------------------------------------------------------------------
(* C1.  For every driving condition (v, op, t) and every source row that   *)
(* survives the geometry filter, the combined table holds a row with       *)
(* W' = W * t / v_row (W' = W * rout_row / t for v = rout), every          *)
(* proportional column multiplied by W'/W and rout divided by W'/W, so     *)
(* that the column v equals t, area = W' * L, and every other column equal *)
(* to the source row's; W is the source row's own width.                   *)

\* Row r is source row i rescaled to width w and tagged v.
IsRescaled(r, i, w, v) ==
    LET src == mod_df[i]
        k   == Div(w, src.W)
    IN  /\ r.W = w
        /\ r.condition = v
        /\ \A c \in proportional : r[c] = Mul(src[c], k)
        /\ r.rout = Div(src.rout, k)
        /\ r.area = Mul(w, src.L)
        /\ \A c \in {"L", "region", "intrinsic_gain", "ft", "gmoverid"} : r[c] = src[c]

C1_RescaledRow ==
    outcome = "ok" =>
        \A k \in DrivingConds : \A i \in 1..Len(mod_df) :
            Survives(i, k) =>
                \E j \in 1..Len(conditional_df) :
                    /\ IsRescaled(conditional_df[j], i, TargetW(i, k), CondVar(k))
                    /\ conditional_df[j][CondVar(k)] = CondTarget(k)

\* A call resized rows for a gm target and for a rout target, to widths other
\* than their own.
C1_Witness ==
    /\ outcome = "ok"
    /\ \E k1 \in DrivingConds, k2 \in DrivingConds :
          /\ CondVar(k1) = "gm" /\ CondVar(k2) = "rout"
          /\ \E i \in 1..Len(mod_df) :
                /\ Survives(i, k1) /\ Survives(i, k2)
                /\ TargetW(i, k1) # mod_df[i].W /\ TargetW(i, k2) # mod_df[i].W
                /\ mod_df[i].W # mod_df[1].W

-----------------------------------------------------------------------------
(* C2.  Every row of the combined table has W' < Wmax and                  *)
(* W'/L > WoverL_min, both strict; a source row whose resized width        *)
(* violates either bound for a driving condition is absent from that       *)
(* condition's batch: the table holds as many rows tagged v as there are   *)
(* surviving (condition on v, source row) pairs.                           *)

RowsTagged(v) == {j \in 1..Len(conditional_df) : conditional_df[j].condition = v}

SurvivingPairs(v) ==
    {p \in DrivingConds \X (1..Len(mod_df)) : CondVar(p[1]) = v /\ Survives(p[2], p[1])}

-----------------------------------------------------------------------------
(* C3.  For every row of the combined table, met_specs is true exactly     *)
(* when every condition of the request holds on the row's rescaled values: *)
(* '=' iff t*(1 - p/100) <= value <= t*(1 + p/100), '>' iff value >= t,    *)
(* '<' iff value <= t.  With 1% and rout = 40e3 the band is [39600, 40400].*)

Holds(r, k) ==
    LET value == r[CondVar(k)]
        t     == CondTarget(k)
        p     == Div(request.tolerance_percent, Hundred)
    IN  CASE CondOp(k) = "=" -> /\ Le(Mul(t, Sub(One, p)), value)
                               /\ Le(value, Mul(t, Add(One, p)))
          [] CondOp(k) = ">" -> Ge(value, t)
          [] CondOp(k) = "<" -> Le(value, t)

C3_MetSpecs ==
    outcome = "ok" =>
        \A j \in 1..Len(conditional_df) :
            conditional_df[j].met_specs <=>
                \A k \in 1..Len(request.conditions) : Holds(conditional_df[j], k)

\* With 1% and rout = 40e3: rows on both ends of [39600, 40400] accepted,
\* rows outside it rejected.
C3_Witness ==
    /\ outcome = "ok"
    /\ request.tolerance_percent = One
    /\ \E k \in 1..Len(request.conditions) :
          CondVar(k) = "rout" /\ CondOp(k) = "=" /\ CondTarget(k) = Num(4, 1, 4)
    /\ \E j1, j2, j3, j4 \in 1..Len(conditional_df) :
          /\ conditional_df[j1].rout = Num(39600, 1, 0) /\ conditional_df[j1].met_specs
          /\ conditional_df[j2].rout = Num(40400, 1, 0) /\ conditional_df[j2].met_specs
          /\ conditional_df[j3].rout = Num(39500, 1, 0) /\ ~conditional_df[j3].met_specs
          /\ conditional_df[j4].rout = Num(40500, 1, 0) /\ ~conditional_df[j4].met_specs

-----------------------------------------------------------------------------
(* C4.  End to end on the two-row table of RowA and RowB with conditions   *)
(* ["gm=1.5e-3", "rout > 3.5e4"], tolerance 1% and the default geometry    *)
(* bounds.  As stated: only gm=1.5e-3 produces rescaled rows, two in all.  *)
(* As amended: both conditions produce rescaled rows, two each, the gm     *)
(* batch first; met_specs is true only for rows whose rescaled gm is in    *)
(* [1.485e-3, 1.515e-3] and whose rescaled rout is >= 3.5e4, which is the  *)
(* second row of the gm batch alone.                                       *)

C4_Table == <<RowA, RowB>>

C4_Request == [conditions |-> <<CondGm, CondRout>>, tolerance_percent |-> One,
               WoverL_min |-> Num(5, 1, -1), Wmax |-> Num(100, 1, -6)]

C4_Case == outcome = "ok" /\ df = DecodeW(C4_Table) /\ request = C4_Request

C4_MeetsBoth(r) ==
    /\ Le(Num(1485, 1, -6), r.gm) /\ Le(r.gm, Num(1515, 1, -6))
    /\ Ge(r.rout, Num(35, 1, 3))

C4_OnlyGmDrives ==
    C4_Case =>
        /\ Len(conditional_df) = 2
        /\ \A j \in 1..Len(conditional_df) :
              /\ conditional_df[j].condition = "gm"
              /\ conditional_df[j].met_specs => C4_MeetsBoth(conditional_df[j])

C4_BothDrive ==
    C4_Case =>
        /\ [j \in 1..Len(conditional_df) |-> conditional_df[j].condition]
              = <<"gm", "gm", "rout", "rout">>
        /\ \A j \in 1..Len(conditional_df) :
              conditional_df[j].met_specs => C4_MeetsBoth(conditional_df[j])
        /\ {j \in 1..Len(conditional_df) : conditional_df[j].met_specs} = {2}

C4_Witness == C4_Case /\ Len(conditional_df) = 4

-----------------------------------------------------------------------------
(* C5.  A call whose condition strings parse fails with the insufficient-  *)
(* conditions error exactly when no condition names a proportional or      *)
(* inverse variable: the empty list and a filter-only list are rejected,   *)
(* and a request with a driving condition is never rejected with this     *)
(* error, even when the geometry filter removes every row.                 *)

C5_InsufficientIffNoDriver ==
    (outcome # "none" /\ RequestParses) =>
        (outcome = "Exception" <=> DrivingConds = {})

\* ["region = 2"] on a table with rows is rejected.
C5_Witness ==
    /\ outcome = "Exception"
    /\ request.conditions = <<CondRegion>>
    /\ Len(mod_df) > 0

-----------------------------------------------------------------------------
(* C6.  A row whose value in a column is non-finite never satisfies a      *)
(* condition on that column, whatever the operator: met_specs is false for *)
(* the row whenever the request holds such a condition.                    *)

C6_NonFiniteNeverMeets ==
    outcome = "ok" =>
        \A j \in 1..Len(conditional_df) : \A k \in 1..Len(request.conditions) :
            ~IsFinite(conditional_df[j][CondVar(k)]) => ~conditional_df[j].met_specs

-----------------------------------------------------------------------------
(* C9.  No call of compute_conditional_df, whether it succeeds or fails,   *)
(* changes the base table df (with its decoded W) or the extended table    *)
(* mod_df.                                                                 *)

C9_BaseTablesUnchanged == [][df' = df /\ mod_df' = mod_df]_vars

\* A call that failed on an instance whose call before had succeeded and
\* left rows.
C9_Witness ==
    /\ prior = "ok"
    /\ outcome = "ValueError"
    /\ Len(conditional_df) > 0
    /\ mod_df = add_specs_df(df)

-----------------------------------------------------------------------------
(* C10.  The combined table of a call is the concatenation, in request     *)
(* order and without deduplication, of one batch per driving condition,    *)
(* each batch holding one row tagged with the condition's variable for     *)
(* every source row that passes that condition's geometry filter, in       *)
(* source order; other conditions contribute no rows, and no row of an     *)
(* earlier call is in it.                                                  *)

\* (tag, width) of the rows the k-th condition contributes.
ExpectedBatch(k) ==
    LET all == [i \in 1..Len(mod_df) |->
                    [tag |-> CondVar(k), W |-> TargetW(i, k), keep |-> Survives(i, k)]]
        kept == SelectSeq(all, LAMBDA x : x.keep)
    IN  [j \in 1..Len(kept) |-> <<kept[j].tag, kept[j].W>>]

RECURSIVE ExpectedFrom(_)
ExpectedFrom(k) ==
    IF k > Len(request.conditions) THEN <<>>
    ELSE (IF k \in DrivingConds THEN ExpectedBatch(k) ELSE <<>>) \o ExpectedFrom(k + 1)

-----------------------------------------------------------------------------
(* C11.  Every row of the combined table that a driving condition          *)
(* (v, op, t) produced satisfies that same condition in the matcher, for   *)
(* each of '=', '>' and '<' and every tolerance_percent >= 0.              *)

\* The number of rows the conditions before the k-th contribute.
RowsBefore(k) == Len(ExpectedFrom(1)) - Len(ExpectedFrom(k))

\* Row j of the combined table is in the batch of the k-th condition.
ProducedBy(j, k) ==
    /\ k \in DrivingConds
    /\ RowsBefore(k) < j
    /\ j <= RowsBefore(k) + Len(ExpectedBatch(k))

C11_ProducedRowMeetsOwnCondition ==
    outcome = "ok" =>
        \A j \in 1..Len(conditional_df) : \A k \in 1..Len(request.conditions) :
            ProducedBy(j, k) => Holds(conditional_df[j], k)

-----------------------------------------------------------------------------
(* The pure text functions applied to bounded inputs.                      *)

MaxLen == 4

CondAlphabet == {"g", "1", ">", "=", " "}

NumAlphabet == {"1", "0", ".", "-", "k", "x"}

CondExamples ==
    { <<"g", "m", ">", "=", "1">>,
      <<"g", "m", ">", "1", ".", "4", "4", "e", "-", "3">>,
      <<"r", "o", "u", "t", "=", "4", "0", "e", "3">>,
      <<"r", "o", "u", "t", " ", ">", " ", "4", "0", "e", "3">>,
      <<"g", "m">> }

NumExamples ==
    { <<"1", "0", "k">>, <<"2", ".", "5", "u">>, <<"b", "a", "d">>,
      <<"1", "0", "x">>, <<"1", "0", "k", "k">>, <<"1", "e", "-", "6">>,
      <<"1", "T">>, <<"1", "G">>, <<"1", "M">>, <<"1", "m">>, <<"1", "n">>,
      <<"1", "p">>, <<"1", "f">>, <<"1", "u">>, <<"+", ".", "5", "m">> }

CondTexts == StringsOver(CondAlphabet, MaxLen) \cup CondExamples

NumTexts == StringsOver(NumAlphabet, MaxLen) \cup NumExamples

InitText ==
    /\ text \in CondTexts \cup NumTexts
    /\ result = [fn |-> "none"]
    /\ df = NoTable
    /\ mod_df = NoTable
    /\ conditional_df = <<>>
    /\ outcome = "none"
    /\ request = NoRequest
    /\ prior = "none"

ParseCondition ==
    /\ result.fn = "none"
    /\ text \in CondTexts
    /\ result' = [fn |-> "parse_condition", out |-> parse_condition(text)]
    /\ UNCHANGED <<df, mod_df, conditional_df, outcome, request, prior, text>>

ParseFromNumber ==
    /\ result.fn = "none"
    /\ text \in NumTexts
    /\ result' = [fn |-> "parse_from_number", out |-> parse_from_number(text)]
    /\ UNCHANGED <<df, mod_df, conditional_df, outcome, request, prior, text>>

NextText == ParseCondition \/ ParseFromNumber

SpecText == InitText /\ [][NextText]_vars

-----------------------------------------------------------------------------
(* C7.  parse_condition fails with a parse error on every string that is   *)
(* not of the shape <token><ws>*<op><ws>*<token>, with one operator from   *)
(* {=, <, >} and tokens free of blanks and operators, and returns the      *)
(* triple (token, op, token) on every string of that shape; so "gm>=1"     *)
(* is an error, "gm>1.44e-3" is ("gm", ">", "1.44e-3") and "rout=40e3" is  *)
(* ("rout", "=", "40e3").                                                  *)

IsToken(s) == s # <<>> /\ \A i \in 1..Len(s) : s[i] \notin WS \cup Ops

IsBlank(s) == \A i \in 1..Len(s) : s[i] \in WS

\* The splits (i, o, r) of t as token t[1..i], blanks, operator t[o], blanks,
\* token t[r..Len(t)].
ShapeSplits(t) ==
    {p \in (1..Len(t)) \X (1..Len(t)) \X (1..Len(t)) :
        /\ p[1] < p[2] /\ p[2] < p[3]
        /\ IsToken(SubSeq(t, 1, p[1]))
        /\ IsBlank(SubSeq(t, p[1] + 1, p[2] - 1))
        /\ t[p[2]] \in Ops
        /\ IsBlank(SubSeq(t, p[2] + 1, p[3] - 1))
        /\ IsToken(SubSeq(t, p[3], Len(t)))}

C7_ParseErrorOffShape ==
    result.fn = "parse_condition" =>
        LET S == ShapeSplits(text)
        IN  IF S = {} THEN result.out = ValueError
            ELSE \E p \in S :
                    result.out = [ok |-> TRUE,
                                  groups |-> <<SubSeq(text, 1, p[1]), text[p[2]],
                                               SubSeq(text, p[3], Len(text))>>]

-----------------------------------------------------------------------------
(* C8.  parse_from_number returns mantissa * scale when the whole text is  *)
(* a signed decimal mantissa followed by at most one suffix of             *)
(* {T,G,M,k,m,u,n,p,f}, and fails with a format error on every other text: *)
(* one with no numeric prefix ("bad") and one whose text after the         *)
(* mantissa is not a single suffix ("10x", "10kk", "1e-6").                *)

\* t is [sign] digits* ["."] digits+, the mantissa grammar of the codec.
IsMantissa(t) ==
    LET b == SubSeq(t, SignLen(t) + 1, Len(t))
        i == Run(b, 1, Digits)
        f == IF i < Len(b) /\ b[i + 1] = "." THEN Run(b, i + 2, Digits) ELSE 0
    IN  \/ i >= 1 /\ Len(b) = i
        \/ f >= 1 /\ Len(b) = i + 1 + f

\* The lengths k of the mantissa when t is mantissa plus at most one suffix.
MantissaLens(t) ==
    {k \in 1..Len(t) :
        /\ IsMantissa(SubSeq(t, 1, k))
        /\ \/ k = Len(t)
           \/ k + 1 = Len(t) /\ t[k + 1] \in Suffixes}

C8_DecodeValueOrFormatError ==
    result.fn = "parse_from_number" =>
        LET K == MantissaLens(text)
        IN  IF K = {} THEN result.out = ValueError
            ELSE \E k \in K :
                    LET unit == IF k = Len(text) THEN "" ELSE text[Len(text)]
                    IN  result.out =
                            [ok |-> TRUE,
                             value |-> Mul(FloatOf(SubSeq(text, 1, k)).value,
                                           Num(1, 1, UnitExp(unit)))]

=============================================================================
